---------------------------- MODULE Spec2Model ----------------------------
(***************************************************************************)
(* A model of the two data pipelines of the weather front-end:             *)
(*   - the climate-normals pipeline (lib/normalsClient.ts and the          *)
(*     pages/api/normals.ts request handler), and                          *)
(*   - the forecast pipeline of the Weather component.                     *)
(*                                                                         *)
(* Representation.  A JavaScript string is a sequence of one-character     *)
(* strings and is compared by UTF-16 code unit (Code).  A `number | null`  *)
(* is Null or Num(n).  An optional argument is Undefined or Str(s).        *)
(***************************************************************************)
EXTENDS Integers, Sequences, FiniteSets, TLC

VARIABLES
    \* summarizeNormals: the argument and the returned summary
    sRecords, sSummary,
    \* filterNormalsByDate: the arguments, the argument as first passed, the result
    fRecords, fRecords0, fStart, fEnd, fOut,
    \* parseCsv: the arguments and the outcome (a throw or the records)
    pStation, pText, pResult,
    \* the normals request handler: the query parameters of the request,
    hStation, hStart, hEnd,
    \* where the invocation stands, the body text buffered so far and the number
    \* of chunks received, the status code the provider answered with (0: none)
    hPc, hRaw, hChunks, hUpStatus,
    \* the error the pipeline threw or rejected with and the step it came from,
    hErr, hThrown,
    \* the responses sent, the GET requests issued and the calls of parseCsv
    hResponses, hFetches, hParses,
    \* the Weather component: its state (useState) and the API key it reads,
    city, days, results, error, apiKey,
    \* the invocations of fetchWeather (each with the `days` its closure holds
    \* and the response it is reading), their number, and the number of
    \* requests sent to the forecast provider
    calls, clicks, requests,
    \* the aggregation of fetchWeather alone: the response's list, the day
    \* count and the summaries
    aList, aDays, aOut

normalsVars == <<sRecords, sSummary, fRecords, fRecords0, fStart, fEnd, fOut,
                 pStation, pText, pResult>>

hVars == <<hStation, hStart, hEnd, hPc, hRaw, hChunks, hUpStatus, hErr, hThrown,
           hResponses, hFetches, hParses>>

wVars == <<city, days, results, error, apiKey, calls, clicks, requests>>
aVars == <<aList, aDays, aOut>>

vars == <<normalsVars, hVars, wVars, aVars>>

-----------------------------------------------------------------------------
(* Bounds of the model *)

MaxTemp == 1
MaxSumRecs == 2
MaxDateLen == 2
MaxBoundLen == 1
MaxFilterRecs == 2
MaxTextLen == 4
MaxChunks == 3
MaxEntries == 3
MaxRespEntries == 1
MaxClicks == 2

-----------------------------------------------------------------------------
(* Values *)

Null == [tag |-> "null", v |-> 0]
Num(n) == [tag |-> "num", v |-> n]
\* Math.min() and Math.max() of no arguments
PosInfinity == [tag |-> "inf", v |-> 1]
NegInfinity == [tag |-> "inf", v |-> -1]
\* the quotient num / den of a floating-point division, kept exact
Quot(n, d) == [tag |-> "quot", num |-> n, den |-> d]

Undefined == [tag |-> "undefined", s |-> <<>>]
Str(s) == [tag |-> "string", s |-> s]

NotRun == [tag |-> "notrun"]
Ran(v) == [tag |-> "ran", value |-> v]

\* `const x = v; F(x)`: v is evaluated once and F applied to its value
Let(v, F(_)) == CHOOSE r \in {F(x) : x \in {v}} : TRUE

\* All sequences over S of length at most n
SeqsUpTo(S, n) == UNION {[1..k -> S] : k \in 0..n}

\* The UTF-16 code unit of a character of the model's alphabet
Code(c) ==
    CASE c = "\n" -> 10
      [] c = "\r" -> 13
      [] c = " " -> 32
      [] c = "," -> 44
      [] c = "0" -> 48
      [] c = "1" -> 49
      [] c = "2" -> 50
      [] c = "D" -> 68
      [] c = "A" -> 65
      [] c = "T" -> 84
      [] c = "E" -> 69
      [] c = "a" -> 97
      [] c = "d" -> 100
      [] c = "e" -> 101
      [] c = "t" -> 116
      [] c = "x" -> 120

\* a < b for JavaScript strings: the first differing code unit decides, a
\* proper prefix is smaller
RECURSIVE StrLess(_, _)
StrLess(a, b) ==
    IF b = <<>> THEN FALSE
    ELSE IF a = <<>> THEN TRUE
    ELSE IF Code(Head(a)) # Code(Head(b)) THEN Code(Head(a)) < Code(Head(b))
    ELSE StrLess(Tail(a), Tail(b))

StrLeq(a, b) == a = b \/ StrLess(a, b)
StrGeq(a, b) == StrLeq(b, a)

\* Array.prototype.filter: the kept elements, in their order
ArrayFilter(arr, Keep(_)) == SelectSeq(arr, Keep)

\* Array.prototype.map
ArrayMap(arr, F(_)) == [i \in 1..Len(arr) |-> F(arr[i])]

\* Array.prototype.reduce((a, b) => a + b, 0)
RECURSIVE SumOf(_)
SumOf(arr) == IF arr = <<>> THEN 0 ELSE Head(arr) + SumOf(Tail(arr))

\* Math.min(...arr) and Math.max(...arr) of numbers
MathMin(arr) ==
    IF arr = <<>> THEN PosInfinity
    ELSE Num(CHOOSE m \in {arr[i] : i \in 1..Len(arr)} :
                 \A i \in 1..Len(arr) : m <= arr[i])
MathMax(arr) ==
    IF arr = <<>> THEN NegInfinity
    ELSE Num(CHOOSE m \in {arr[i] : i \in 1..Len(arr)} :
                 \A i \in 1..Len(arr) : m >= arr[i])

DailyNormal(station, date, mean, min, max, precip) ==
    [station |-> station, date |-> date, meanTempF |-> mean,
     minTempF |-> min, maxTempF |-> max, precipIn |-> precip]

-----------------------------------------------------------------------------
(* lib/normalsClient.ts: summarizeNormals *)

NotNull(v) == v # Null
NumberOf(v) == v.v
MeanField(r) == r.meanTempF
MinField(r) == r.minTempF
MaxField(r) == r.maxTempF

\* the non-null values of one field, as numbers
NonNullValues(records, Field(_)) ==
    ArrayMap(ArrayFilter(ArrayMap(records, Field), NotNull), NumberOf)

summarizeNormals(records) ==
    Let(NonNullValues(records, MeanField), LAMBDA temps :
        IF Len(temps) = 0
        THEN [count |-> 0, meanOfMeanTempF |-> Null,
              minOfMinTempF |-> Null, maxOfMaxTempF |-> Null]
        ELSE [count |-> Len(records),
              meanOfMeanTempF |-> Quot(SumOf(temps), Len(temps)),
              minOfMinTempF |-> MathMin(NonNullValues(records, MinField)),
              maxOfMaxTempF |-> MathMax(NonNullValues(records, MaxField))])

-----------------------------------------------------------------------------
(* lib/normalsClient.ts: filterNormalsByDate *)

\* `if (startDate)`: undefined and the empty string are falsy
Truthy(opt) == opt.tag = "string" /\ opt.s # <<>>

\* filterNormalsByDate with the end bound made exclusive (`<` for `<=`)
filterNormalsByDateExclusiveEnd(records, startDate, endDate) ==
    LET AfterStart(r) == StrGeq(r.date, startDate.s)
        BeforeEnd(r) == StrLess(r.date, endDate.s)
        filtered1 == IF Truthy(startDate) THEN ArrayFilter(records, AfterStart)
                     ELSE records
    IN  IF Truthy(endDate) THEN ArrayFilter(filtered1, BeforeEnd) ELSE filtered1

filterNormalsByDate(records, startDate, endDate) ==
    LET AfterStart(r) == StrGeq(r.date, startDate.s)
        BeforeEnd(r) == StrLeq(r.date, endDate.s)
        filtered1 == IF Truthy(startDate) THEN ArrayFilter(records, AfterStart)
                     ELSE records
    IN  IF Truthy(endDate) THEN ArrayFilter(filtered1, BeforeEnd) ELSE filtered1

-----------------------------------------------------------------------------
(* lib/normalsClient.ts: parseNumber and parseCsv *)

WhiteSpace == {" ", "\r", "\n"}
Digits == {"0", "1", "2"}

DigitValue(c) == CASE c = "0" -> 0 [] c = "1" -> 1 [] c = "2" -> 2

\* String.prototype.trim() leaves the empty string
IsBlank(s) == \A i \in 1..Len(s) : s[i] \in WhiteSpace

RECURSIVE TrimStart(_)
TrimStart(s) ==
    IF s # <<>> /\ Head(s) \in WhiteSpace THEN TrimStart(Tail(s)) ELSE s

\* the longest prefix of decimal digits
RECURSIVE DigitPrefix(_)
DigitPrefix(s) ==
    IF s # <<>> /\ Head(s) \in Digits
    THEN <<Head(s)>> \o DigitPrefix(Tail(s)) ELSE <<>>

RECURSIVE DecimalValue(_, _)
DecimalValue(ds, acc) ==
    IF ds = <<>> THEN acc
    ELSE DecimalValue(Tail(ds), 10 * acc + DigitValue(Head(ds)))

NaN == [tag |-> "nan", v |-> 0]

\* parseFloat: leading white space is skipped and the longest numeric prefix
\* is read; no prefix, or an argument that is undefined, gives NaN.  (The
\* cells of the model hold no sign, decimal point or exponent.)
parseFloat(value) ==
    IF value.tag = "undefined" THEN NaN
    ELSE Let(DigitPrefix(TrimStart(value.s)), LAMBDA ds :
             IF ds = <<>> THEN NaN ELSE Num(DecimalValue(ds, 0)))

parseNumber(value) ==
    Let(parseFloat(value), LAMBDA n : IF n = NaN THEN Null ELSE n)

\* String.prototype.split(/\r?\n/)
RECURSIVE SplitLinesAcc(_, _, _)
SplitLinesAcc(s, cur, out) ==
    IF s = <<>> THEN Append(out, cur)
    ELSE IF Head(s) = "\n"
         THEN LET piece == IF cur # <<>> /\ cur[Len(cur)] = "\r"
                           THEN SubSeq(cur, 1, Len(cur) - 1) ELSE cur
              IN  SplitLinesAcc(Tail(s), <<>>, Append(out, piece))
         ELSE SplitLinesAcc(Tail(s), Append(cur, Head(s)), out)

SplitLines(s) == SplitLinesAcc(s, <<>>, <<>>)

\* String.prototype.split(",")
RECURSIVE SplitCommaAcc(_, _, _)
SplitCommaAcc(s, cur, out) ==
    IF s = <<>> THEN Append(out, cur)
    ELSE IF Head(s) = ","
         THEN SplitCommaAcc(Tail(s), <<>>, Append(out, cur))
         ELSE SplitCommaAcc(Tail(s), Append(cur, Head(s)), out)

SplitComma(s) == SplitCommaAcc(s, <<>>, <<>>)

LowerChar(c) ==
    CASE c = "D" -> "d" [] c = "A" -> "a" [] c = "T" -> "t" [] c = "E" -> "e"
      [] OTHER -> c

\* String.prototype.toLowerCase
toLowerCase(s) == [i \in 1..Len(s) |-> LowerChar(s[i])]

\* String.prototype.includes
includes(s, sub) ==
    \E i \in 0..(Len(s) - Len(sub)) : SubSeq(s, i + 1, i + Len(sub)) = sub

DateMarker == <<"d", "a", "t", "e">>

\* the i-th target of the array destructuring: undefined past the end
Column(cells, i) == IF i <= Len(cells) THEN Str(cells[i]) ELSE Undefined

NonBlank(l) == ~IsBlank(l)

Returned(v) == [thrown |-> FALSE, value |-> v]
\* reading a property of undefined
TypeErrorMessage == <<"Cannot read properties of undefined (reading 'toLowerCase')">>
Thrown(msg) == [thrown |-> TRUE, value |-> msg]

\* `const [date, mean, max, min, precip] = line.split(",")` and the record
ParseLine(station, line) ==
    Let(SplitComma(line), LAMBDA cells :
        DailyNormal(station, cells[1],
                    parseNumber(Column(cells, 2)),
                    parseNumber(Column(cells, 4)),
                    parseNumber(Column(cells, 3)),
                    parseNumber(Column(cells, 5))))

\* the header test and the map over the data lines
ParseLines(station, lines) ==
    Let(IF includes(toLowerCase(lines[1]), DateMarker) THEN Tail(lines) ELSE lines,
        LAMBDA dataLines :
            [i \in 1..Len(dataLines) |-> ParseLine(station, dataLines[i])])

parseCsv(station, csvText) ==
    Let(ArrayFilter(SplitLines(csvText), NonBlank), LAMBDA lines :
        IF lines = <<>>
        THEN \* lines[0] is undefined: lines[0].toLowerCase() throws
             Thrown(TypeErrorMessage)
        ELSE Returned(ParseLines(station, lines)))

-----------------------------------------------------------------------------
(* lib/normalsClient.ts: fetchNormalsForStation *)

\* the decimal text of a status code, as a template literal prints it
StatusText(code) ==
    CASE code = 200 -> "200" [] code = 301 -> "301" [] code = 399 -> "399"
      [] code = 400 -> "400" [] code = 404 -> "404" [] code = 503 -> "503"

\* `res.statusCode && res.statusCode >= 400`
IsErrorStatusAbove400Only(code) == code # 0 /\ code > 400
IsErrorStatus(code) == code # 0 /\ code >= 400

\* new Error(`HTTP ${res.statusCode} from NOAA for station ${station}`)
HttpError(code, station) ==
    [message |-> <<"HTTP ", StatusText(code), " from NOAA for station ", station>>]

NoError == [message |-> <<"(none)">>]

-----------------------------------------------------------------------------
(* pages/api/normals.ts: handler *)

ArrayParam == [tag |-> "array", s |-> <<>>]
StationUndefined == [tag |-> "undefined", s |-> ""]
StationStr(s) == [tag |-> "string", s |-> s]
StationArray == [tag |-> "array", s |-> ""]

\* `!station || typeof station !== "string"`
StationInvalidFalsyOnly(station) ==
    station.tag = "undefined" \/ (station.tag = "string" /\ station.s = "")
StationInvalid(station) ==
    \/ station.tag = "undefined" \/ (station.tag = "string" /\ station.s = "")
    \/ station.tag # "string"

\* `typeof startDate === "string" ? startDate : undefined`
StringOrUndefined(param) == IF param.tag = "string" THEN param ELSE Undefined

BadRequestMessage == <<"Missing or invalid 'station' parameter">>
FallbackMessage == <<"Failed to fetch climate normals">>

Response(status, body) == [status |-> status, body |-> body]
ErrorBody(msg) == [kind |-> "error", error |-> msg]

\* the catch block: `err.message || "Failed to fetch climate normals"`
ErrorResponseNoFallback(err) == Response(500, ErrorBody(err.message))
ErrorResponse(err) ==
    Response(500, ErrorBody(IF err.message # <<>> THEN err.message
                            ELSE FallbackMessage))

\* the body of the 200 response
NormalsResponse(station, startDate, endDate, filtered, summary) ==
    [kind |-> "normals", station |-> station,
     startDate |-> StringOrUndefined(startDate),
     endDate |-> StringOrUndefined(endDate),
     records |-> filtered, summary |-> summary]

\* The handler up to its await: the station check, then the GET of
\* fetchNormalsForStation.  https.get throws on a path with characters it does
\* not accept; the throw, inside the promise executor, rejects the promise.
UnescapedPathMessage == <<"Request path contains unescaped characters">>
PathRejected(station) == station = "bad id"

HandlerStart ==
    /\ hPc = "start"
    /\ IF StationInvalid(hStation)
       THEN /\ hResponses' = Append(hResponses,
                                    Response(400, ErrorBody(BadRequestMessage)))
            /\ hPc' = "done"
            /\ UNCHANGED <<hFetches, hErr, hThrown>>
       ELSE IF PathRejected(hStation.s)
            THEN /\ hErr' = [message |-> UnescapedPathMessage]
                 /\ hThrown' = "fetch"
                 /\ hPc' = "rejected"
                 /\ UNCHANGED <<hResponses, hFetches>>
            ELSE /\ hFetches' = hFetches + 1
                 /\ hPc' = "awaitResponse"
                 /\ UNCHANGED <<hResponses, hErr, hThrown>>
    /\ UNCHANGED <<hStation, hStart, hEnd, hRaw, hChunks, hUpStatus, hParses>>
    /\ UNCHANGED <<normalsVars, wVars, aVars>>

\* `.on("error", reject)`: the request fails before a response arrives
NetErrors == {[message |-> <<"getaddrinfo ENOTFOUND">>], [message |-> <<>>]}

UpstreamError ==
    /\ hPc = "awaitResponse"
    /\ \E err \in NetErrors : hErr' = err
    /\ hThrown' = "fetch"
    /\ hPc' = "rejected"
    /\ UNCHANGED <<hStation, hStart, hEnd, hRaw, hChunks, hUpStatus,
                   hResponses, hFetches, hParses>>
    /\ UNCHANGED <<normalsVars, wVars, aVars>>

Statuses == {200, 301, 399, 400, 404, 503}

\* the response callback of https.get
UpstreamResponse ==
    /\ hPc = "awaitResponse"
    /\ \E code \in Statuses :
          /\ hUpStatus' = code
          /\ IF IsErrorStatus(code)
             THEN /\ hErr' = HttpError(code, hStation.s)
                  /\ hThrown' = "fetch"
                  /\ hPc' = "rejected"
             ELSE /\ hPc' = "receiving"
                  /\ UNCHANGED <<hErr, hThrown>>
    /\ hRaw' = <<>>
    /\ UNCHANGED <<hStation, hStart, hEnd, hChunks, hResponses, hFetches, hParses>>
    /\ UNCHANGED <<normalsVars, wVars, aVars>>

BodyChunks ==
    {<<"\n">>, <<",">>, <<"1">>, <<"x">>, <<"d", "a", "t", "e", "\n">>}

\* `res.on("data", (chunk) => (raw += chunk))`
UpstreamData ==
    /\ hPc = "receiving"
    /\ hChunks < MaxChunks
    /\ \E chunk \in BodyChunks : hRaw' = hRaw \o chunk
    /\ hChunks' = hChunks + 1
    /\ UNCHANGED <<hStation, hStart, hEnd, hPc, hUpStatus, hErr, hThrown,
                   hResponses, hFetches, hParses>>
    /\ UNCHANGED <<normalsVars, wVars, aVars>>

\* `res.on("end", () => resolve(raw))`
UpstreamEnd ==
    /\ hPc = "receiving"
    /\ hPc' = "resolved"
    /\ UNCHANGED <<hStation, hStart, hEnd, hRaw, hChunks, hUpStatus, hErr, hThrown,
                   hResponses, hFetches, hParses>>
    /\ UNCHANGED <<normalsVars, wVars, aVars>>

\* The handler after the await resolved: parseCsv, the filter, the summary
\* and the 200 response, or the catch block when parseCsv throws.
HandlerContinue ==
    /\ hPc = "resolved"
    /\ hParses' = hParses + 1
    /\ \E all \in {parseCsv(hStation.s, hRaw)} :
          IF all.thrown
          THEN /\ hErr' = [message |-> all.value]
               /\ hThrown' = "parse"
               /\ hResponses' = Append(hResponses,
                                       ErrorResponse([message |-> all.value]))
          ELSE \E filtered \in {filterNormalsByDate(all.value,
                                     StringOrUndefined(hStart),
                                     StringOrUndefined(hEnd))} :
                 /\ hResponses' = Append(hResponses,
                        Response(200, NormalsResponse(hStation.s, hStart, hEnd,
                                        filtered, summarizeNormals(filtered))))
                 /\ UNCHANGED <<hErr, hThrown>>
    /\ hPc' = "done"
    /\ UNCHANGED <<hStation, hStart, hEnd, hRaw, hChunks, hUpStatus, hFetches>>
    /\ UNCHANGED <<normalsVars, wVars, aVars>>

\* The handler after the await rejected: the catch block.
HandlerCatch ==
    /\ hPc = "rejected"
    /\ hResponses' = Append(hResponses, ErrorResponse(hErr))
    /\ hPc' = "done"
    /\ UNCHANGED <<hStation, hStart, hEnd, hRaw, hChunks, hUpStatus, hErr, hThrown,
                   hFetches, hParses>>
    /\ UNCHANGED <<normalsVars, wVars, aVars>>

StationParams ==
    {StationUndefined, StationArray, StationStr(""), StationStr("USW1"),
     StationStr("bad id")}
DateParams == {Undefined, ArrayParam, Str(<<>>), Str(<<"1">>)}

HandlerInit ==
    /\ hStation \in StationParams
    /\ hStart \in DateParams
    /\ hEnd \in DateParams
    /\ hPc = "start"
    /\ hRaw = <<>> /\ hChunks = 0 /\ hUpStatus = 0
    /\ hErr = NoError /\ hThrown = "none"
    /\ hResponses = <<>> /\ hFetches = 0 /\ hParses = 0
HandlerIdle ==
    /\ hStation = StationUndefined /\ hStart = Undefined /\ hEnd = Undefined
    /\ hPc = "idle"
    /\ hRaw = <<>> /\ hChunks = 0 /\ hUpStatus = 0
    /\ hErr = NoError /\ hThrown = "none"
    /\ hResponses = <<>> /\ hFetches = 0 /\ hParses = 0

-----------------------------------------------------------------------------
(* The Weather component: fetchWeather *)

NullValue == [tag |-> "null", s |-> <<>>]

MissingKeyMessage ==
    Str(<<"Missing API key. Please set NEXT_PUBLIC_OPENWEATHER_API_KEY in your .env.local">>)
EnterCityMessage == Str(<<"Please enter a city name">>)
FetchFailedMessage == Str(<<"Failed to fetch weather data">>)
UnexpectedMessage == Str(<<"Unexpected error fetching weather data">>)

\* useState(4)
DefaultDays == 4

\* String.prototype.trim
RECURSIVE TrimEnd(_)
TrimEnd(s) ==
    IF s # <<>> /\ s[Len(s)] \in WhiteSpace
    THEN TrimEnd(SubSeq(s, 1, Len(s) - 1)) ELSE s
trim(s) == TrimEnd(TrimStart(s))

\* The two checks that open fetchWeather: the message of the one that
\* returns early, or NullValue when both pass.
EarlyReturnCityFirst(key, cityName) ==
    IF trim(cityName) = <<>> THEN EnterCityMessage
    ELSE IF key = "" THEN MissingKeyMessage
    ELSE NullValue
EarlyReturn(key, cityName) ==
    IF key = "" THEN MissingKeyMessage
    ELSE IF trim(cityName) = <<>> THEN EnterCityMessage
    ELSE NullValue

\* `entry.dt_txt.split(" ")[0]`, dt_txt a sequence of tokens: the tokens
\* before the first space, joined
RECURSIVE BeforeSpace(_)
BeforeSpace(txt) ==
    IF txt = <<>> \/ Head(txt) = " " THEN <<>>
    ELSE <<Head(txt)>> \o BeforeSpace(Tail(txt))
DateOf(entry) == BeforeSpace(entry.dt_txt)

IndexOfKey(daily, key) ==
    IF \E i \in 1..Len(daily) : daily[i].key = key
    THEN CHOOSE i \in 1..Len(daily) : daily[i].key = key
    ELSE 0

\* The forEach that groups the entries.  `daily` is the object as the list
\* of its properties in insertion order (dates of the form YYYY-MM-DD are not
\* array indices, so that is the order Object.keys gives).
RECURSIVE GroupByDate(_, _)
GroupByDate(list, daily) ==
    IF list = <<>> THEN daily
    ELSE Let(IndexOfKey(daily, DateOf(Head(list))), LAMBDA k :
             IF k = 0
             THEN GroupByDate(Tail(list),
                      Append(daily, [key |-> DateOf(Head(list)),
                                     entries |-> <<Head(list)>>]))
             ELSE GroupByDate(Tail(list),
                      [daily EXCEPT ![k].entries = Append(@, Head(list))]))

ObjectKeys(daily) == [i \in 1..Len(daily) |-> daily[i].key]

\* Array.prototype.slice(0, end) for an integer end
SliceFromStart(arr, end) ==
    Let(IF end < 0 THEN (IF Len(arr) + end < 0 THEN 0 ELSE Len(arr) + end)
        ELSE IF end > Len(arr) THEN Len(arr) ELSE end,
        LAMBDA k : SubSeq(arr, 1, k))

\* `Object.keys(daily).slice(0, days)`
SelectedDatesOneMore(daily, n) == SliceFromStart(ObjectKeys(daily), n + 1)
SelectedDates(daily, n) == SliceFromStart(ObjectKeys(daily), n)

\* the nearest integer to num / den, a tie going up (den > 0)
RoundHalfUp(num, den) == (2 * num + den) \div (2 * den)

\* (num / den).toFixed(1) as a number of tenths: "72.0" is 720.  A tie goes
\* away from zero.
ToFixed1(num, den) ==
    IF num >= 0 THEN RoundHalfUp(10 * num, den) ELSE -RoundHalfUp(-10 * num, den)

TempOf(e) == e.main.temp
PopOf(e) == e.pop

\* The summary of one date's entries.  pop is held in hundredths, so
\* Math.round(avgPop * 100) is the rounded mean of the hundredths.
DaySummary(date, entries) ==
    [date |-> date,
     avgTemp |-> ToFixed1(SumOf(ArrayMap(entries, TempOf)), Len(entries)),
     pop |-> RoundHalfUp(SumOf(ArrayMap(entries, PopOf)), Len(entries))]

\* lines 64-85: from the parsed response to the argument of setResults
Summarise(list, n) ==
    Let(GroupByDate(list, <<>>), LAMBDA daily :
        Let(SelectedDates(daily, n), LAMBDA selectedDates :
            [i \in 1..Len(selectedDates) |->
                DaySummary(selectedDates[i],
                           daily[IndexOfKey(daily, selectedDates[i])].entries)]))

NoBody == [kind |-> "none", list |-> <<>>]
\* resp.json() rejects
InvalidJson == [kind |-> "invalid", list |-> <<>>]
\* valid JSON without a `list`: data.list.forEach throws
NoList == [kind |-> "nolist", list |-> <<>>]
Forecast(list) == [kind |-> "forecast", list |-> list]

Call(pc, n, body) == [pc |-> pc, days |-> n, body |-> body]
DoneCall == Call("done", 0, NoBody)

\* the largest day count the form offers (max="5")
MaxDays == 5

Cities == {<<>>, <<" ">>, <<" ", "a">>}
DayInputs == {-1, 1, 2}

ForecastDates == {"2024-01-01", "2024-01-02", "2024-01-03"}
Readings == {[temp |-> 70, pop |-> 10], [temp |-> 73, pop |-> 45]}
ForecastEntries ==
    {[dt_txt |-> <<d, " ", "09:00:00">>, main |-> [temp |-> r.temp], pop |-> r.pop] :
        d \in ForecastDates, r \in Readings}
Bodies ==
    {InvalidJson, NoList}
    \cup {Forecast(l) : l \in SeqsUpTo(ForecastEntries, MaxRespEntries)}

WeatherInit ==
    /\ city = <<>>
    /\ days = DefaultDays
    /\ results = <<>>
    /\ error = NullValue
    /\ apiKey \in {"", "KEY"}
    /\ calls = <<>>
    /\ clicks = 0
    /\ requests = 0
WeatherIdle ==
    /\ city = <<>> /\ days = DefaultDays /\ results = <<>> /\ error = NullValue
    /\ apiKey = "" /\ calls = <<>> /\ clicks = -1 /\ requests = 0

\* onChange of the city input
SetCity ==
    /\ clicks \in 0..(MaxClicks - 1)
    /\ \E c \in Cities : city' = c
    /\ UNCHANGED <<days, results, error, apiKey, calls, clicks, requests>>
    /\ UNCHANGED <<normalsVars, hVars, aVars>>

\* onChange of the days input: Number(e.target.value)
SetDays ==
    /\ clicks \in 0..(MaxClicks - 1)
    /\ \E n \in DayInputs : days' = n
    /\ UNCHANGED <<city, results, error, apiKey, calls, clicks, requests>>
    /\ UNCHANGED <<normalsVars, hVars, aVars>>

\* fetchWeather from the click to its first await (or early return)
FetchWeatherStart ==
    /\ clicks \in 0..(MaxClicks - 1)
    /\ clicks' = clicks + 1
    /\ IF EarlyReturn(apiKey, city) # NullValue
       THEN /\ error' = EarlyReturn(apiKey, city)
            /\ UNCHANGED <<results, calls, requests>>
       ELSE /\ error' = NullValue
            /\ results' = <<>>
            /\ requests' = requests + 1
            /\ calls' = Append(calls, Call("fetching", days, NoBody))
    /\ UNCHANGED <<city, days, apiKey>>
    /\ UNCHANGED <<normalsVars, hVars, aVars>>

\* `await fetch(url)` settles: it rejects (the catch block), or gives a
\* response that is not ok, or one whose body is then read
FetchSettles ==
    /\ \E i \in 1..Len(calls) :
          /\ calls[i].pc = "fetching"
          /\ \/ /\ error' = UnexpectedMessage
                /\ calls' = [calls EXCEPT ![i] = DoneCall]
             \/ /\ error' = FetchFailedMessage
                /\ calls' = [calls EXCEPT ![i] = DoneCall]
             \/ /\ \E body \in Bodies :
                      calls' = [calls EXCEPT ![i] = Call("reading", @.days, body)]
                /\ UNCHANGED error
    /\ UNCHANGED <<city, days, results, apiKey, clicks, requests>>
    /\ UNCHANGED <<normalsVars, hVars, aVars>>

\* `await resp.json()` settles: the rest of the try block, or the catch block
JsonSettles ==
    /\ \E i \in 1..Len(calls) :
          /\ calls[i].pc = "reading"
          /\ IF calls[i].body.kind = "forecast"
             THEN /\ results' = Summarise(calls[i].body.list, calls[i].days)
                  /\ UNCHANGED error
             ELSE /\ error' = UnexpectedMessage
                  /\ UNCHANGED results
          /\ calls' = [calls EXCEPT ![i] = DoneCall]
    /\ UNCHANGED <<city, days, apiKey, clicks, requests>>
    /\ UNCHANGED <<normalsVars, hVars, aVars>>

\* The aggregation as an operation of its own
AggregateInit ==
    /\ aList \in SeqsUpTo(ForecastEntries, MaxEntries)
    /\ aDays \in -1..MaxDays
    /\ aOut = NotRun
AggregateIdle == aList = <<>> /\ aDays = 0 /\ aOut = NotRun

Aggregate ==
    /\ aOut = NotRun
    /\ aOut' = Ran(Summarise(aList, aDays))
    /\ UNCHANGED <<aList, aDays>>

-----------------------------------------------------------------------------
(* The inputs of the three functions *)

NullableTemps == {Null} \cup {Num(n) : n \in 0..MaxTemp}

SumRecords ==
    {DailyNormal("USW1", <<"0", "1">>, mean, min, max, Null) :
        mean \in NullableTemps, min \in NullableTemps, max \in NullableTemps}

DateStrs == SeqsUpTo({"0", "1"}, MaxDateLen)
BoundArgs == {Undefined} \cup {Str(s) : s \in SeqsUpTo({"0", "1"}, MaxBoundLen)}
FilterRecords == {DailyNormal("USW1", d, Null, Null, Null, Null) : d \in DateStrs}

RawChars == {"\n", "\r", ",", " ", "1", "x"}
Cells == {<<>>, <<"1">>, <<"x">>}
HeaderLines == {<<"D", "A", "T", "E", ",", "x">>, <<"d", "a", "t", "e">>}
Rows == {c1 \o <<",">> \o c2 \o <<",">> \o c3 \o <<",">> \o c4 \o <<",">> \o c5 :
            c1 \in {<<"2">>, <<"x">>}, c2 \in Cells, c3 \in Cells,
            c4 \in Cells, c5 \in Cells}
CsvTexts ==
    SeqsUpTo(RawChars, MaxTextLen)
    \cup Rows
    \cup {h \o <<"\n">> \o r : h \in HeaderLines, r \in Rows}
    \cup HeaderLines

-----------------------------------------------------------------------------
(* The three functions as operations *)

SummarizeInit ==
    /\ sRecords \in SeqsUpTo(SumRecords, MaxSumRecs)
    /\ sSummary = NotRun
SummarizeIdle == sRecords = <<>> /\ sSummary = NotRun

Summarize ==
    /\ sSummary = NotRun
    /\ sSummary' = Ran(summarizeNormals(sRecords))
    /\ UNCHANGED <<sRecords>>

FilterInit ==
    /\ fRecords \in SeqsUpTo(FilterRecords, MaxFilterRecs)
    /\ fRecords0 = fRecords
    /\ fStart \in BoundArgs
    /\ fEnd \in BoundArgs
    /\ fOut = NotRun
FilterIdle ==
    /\ fRecords = <<>> /\ fRecords0 = <<>>
    /\ fStart = Undefined /\ fEnd = Undefined /\ fOut = NotRun

Filter ==
    /\ fOut = NotRun
    /\ fOut' = Ran(filterNormalsByDate(fRecords, fStart, fEnd))
    /\ UNCHANGED <<fRecords, fRecords0, fStart, fEnd>>

ParseInit ==
    /\ pStation = "USW1"
    /\ pText \in CsvTexts
    /\ pResult = NotRun
ParseIdle == pStation = "" /\ pText = <<>> /\ pResult = NotRun

Parse ==
    /\ pResult = NotRun
    /\ pResult' = Ran(parseCsv(pStation, pText))
    /\ UNCHANGED <<pStation, pText>>

sVars == <<sRecords, sSummary>>
fVars == <<fRecords, fRecords0, fStart, fEnd, fOut>>
pVars == <<pStation, pText, pResult>>

InitSummarize == AggregateIdle /\ WeatherIdle /\ SummarizeInit /\ FilterIdle /\ ParseIdle /\ HandlerIdle
NextSummarize == Summarize /\ UNCHANGED <<fVars, pVars, hVars, wVars, aVars>>
SpecSummarize == InitSummarize /\ [][NextSummarize]_vars

InitFilter == AggregateIdle /\ WeatherIdle /\ SummarizeIdle /\ FilterInit /\ ParseIdle /\ HandlerIdle
NextFilter == Filter /\ UNCHANGED <<sVars, pVars, hVars, wVars, aVars>>
SpecFilter == InitFilter /\ [][NextFilter]_vars

InitParse == AggregateIdle /\ WeatherIdle /\ SummarizeIdle /\ FilterIdle /\ ParseInit /\ HandlerIdle
NextParse == Parse /\ UNCHANGED <<sVars, fVars, hVars, wVars, aVars>>
SpecParse == InitParse /\ [][NextParse]_vars

InitHandler == AggregateIdle /\ WeatherIdle /\ SummarizeIdle /\ FilterIdle /\ ParseIdle /\ HandlerInit
NextHandler ==
    \/ HandlerStart
    \/ UpstreamError
    \/ UpstreamResponse
    \/ UpstreamData
    \/ UpstreamEnd
    \/ HandlerContinue
    \/ HandlerCatch
SpecHandler == InitHandler /\ [][NextHandler]_vars
InitAggregate ==
    /\ SummarizeIdle /\ FilterIdle /\ ParseIdle /\ HandlerIdle /\ WeatherIdle
    /\ AggregateInit
NextAggregate == Aggregate /\ UNCHANGED <<normalsVars, hVars, wVars>>
SpecAggregate == InitAggregate /\ [][NextAggregate]_vars

InitWeather ==
    /\ SummarizeIdle /\ FilterIdle /\ ParseIdle /\ HandlerIdle /\ WeatherInit
    /\ AggregateIdle
NextWeather ==
    \/ SetCity
    \/ SetDays
    \/ FetchWeatherStart
    \/ FetchSettles
    \/ JsonSettles
SpecWeather == InitWeather /\ [][NextWeather]_vars

\* The event loop runs a continuation that is ready; nothing makes the
\* provider answer.
FairSpecHandler ==
    /\ SpecHandler
    /\ WF_vars(HandlerStart) /\ WF_vars(HandlerContinue) /\ WF_vars(HandlerCatch)

-----------------------------------------------------------------------------
(* Claims about summarizeNormals, under SpecSummarize *)

FieldValues(records, Field(_)) ==
    {Field(records[i]).v : i \in {j \in 1..Len(records) : Field(records[j]) # Null}}
SetMin(S) == CHOOSE m \in S : \A x \in S : m <= x
SetMax(S) == CHOOSE m \in S : \A x \in S : m >= x

AllTempsNull(records) ==
    \A i \in 1..Len(records) :
        /\ records[i].meanTempF = Null
        /\ records[i].minTempF = Null
        /\ records[i].maxTempF = Null

\* C1: the summary's count is the length of the input, whatever fields are
\* null; a non-empty input whose temperatures are all null gives a non-zero
\* count and null aggregates.
C1_CountIsLength ==
    sSummary.tag = "ran" =>
        /\ sSummary.value.count = Len(sRecords)
        /\ (sRecords # <<>> /\ AllTempsNull(sRecords)) =>
              /\ sSummary.value.count # 0
              /\ sSummary.value.meanOfMeanTempF = Null
              /\ sSummary.value.minOfMinTempF = Null
              /\ sSummary.value.maxOfMaxTempF = Null

\* C2: each aggregate depends on its own field only: the minimum of the
\* non-null minTempF values (null exactly when there is none), the maximum of
\* the non-null maxTempF values (null exactly when there is none), and a mean
\* that is null exactly when no meanTempF is non-null.
C2_AggregatesPerField ==
    sSummary.tag = "ran" =>
        LET mins == FieldValues(sRecords, MinField)
            maxs == FieldValues(sRecords, MaxField)
            means == FieldValues(sRecords, MeanField)
        IN  /\ sSummary.value.minOfMinTempF =
                  (IF mins = {} THEN Null ELSE Num(SetMin(mins)))
            /\ sSummary.value.maxOfMaxTempF =
                  (IF maxs = {} THEN Null ELSE Num(SetMax(maxs)))
            /\ (sSummary.value.meanOfMeanTempF = Null) <=> (means = {})

-----------------------------------------------------------------------------
(* Claims about filterNormalsByDate, under SpecFilter *)

\* C3 as stated: the result is exactly the records with date >= startDate when
\* a start is given and date <= endDate when an end is given (any string,
\* the empty one included), in their order, and the input is unchanged.
C3_FilterEveryGivenBound ==
    fOut.tag = "ran" =>
        LET InRange(r) ==
                /\ fStart.tag = "string" => ~StrLess(r.date, fStart.s)
                /\ fEnd.tag = "string" => ~StrLess(fEnd.s, r.date)
        IN  /\ fOut.value = SelectSeq(fRecords0, InRange)
            /\ fRecords = fRecords0

\* C3 amended: a bound constrains its side when it is given and not the empty
\* string; an absent or empty bound imposes no constraint.
C3_FilterNonEmptyBounds ==
    fOut.tag = "ran" =>
        LET InRange(r) ==
                /\ (fStart.tag = "string" /\ fStart.s # <<>>) =>
                       ~StrLess(r.date, fStart.s)
                /\ (fEnd.tag = "string" /\ fEnd.s # <<>>) =>
                       ~StrLess(fEnd.s, r.date)
        IN  /\ fOut.value = SelectSeq(fRecords0, InRange)
            /\ fRecords = fRecords0

\* Both bounds given: one of two records is kept, the other dropped.
C3_Witness ==
    /\ fOut.tag = "ran"
    /\ fStart.tag = "string" /\ fStart.s # <<>>
    /\ fEnd.tag = "string" /\ fEnd.s # <<>>
    /\ Len(fRecords0) = 2
    /\ fOut.value = <<fRecords0[2]>>
    /\ fRecords0[1].date # fRecords0[2].date

-----------------------------------------------------------------------------
(* Claims about parseCsv, under SpecParse *)

HasDigit(s) == \E i \in 1..Len(s) : s[i] \in Digits
AllDigits(s) == s # <<>> /\ \A i \in 1..Len(s) : s[i] \in Digits

\* what the claim asks of the numeric cell in column k of a line
CellAsClaimed(cells, k, parsed) ==
    /\ (k > Len(cells) \/ ~HasDigit(cells[k])) => parsed = Null
    /\ (k <= Len(cells) /\ AllDigits(cells[k])) =>
           parsed = Num(DecimalValue(cells[k], 0))

\* C9: for every body text, parsing does not throw and gives one DailyNormal
\* per non-blank line left after an optional header line, in source order,
\* with the columns (date, mean, max, min, precip) and null for every missing
\* or non-numeric cell.
C9_ParseNeverThrows ==
    pResult.tag = "ran" =>
        LET lines == SelectSeq(SplitLines(pText), NonBlank)
            header == lines # <<>> /\ includes(toLowerCase(lines[1]), DateMarker)
            data == IF header THEN Tail(lines) ELSE lines
            out == pResult.value
        IN  /\ ~out.thrown
            /\ Len(out.value) = Len(data)
            /\ \A i \in 1..Len(data) :
                  LET cells == SplitComma(data[i])
                      r == out.value[i]
                  IN  /\ r.station = pStation
                      /\ r.date = cells[1]
                      /\ CellAsClaimed(cells, 2, r.meanTempF)
                      /\ CellAsClaimed(cells, 3, r.maxTempF)
                      /\ CellAsClaimed(cells, 4, r.minTempF)
                      /\ CellAsClaimed(cells, 5, r.precipIn)

-----------------------------------------------------------------------------
(* Claims about the normals request handler, under SpecHandler *)

StationMissingOrNotString ==
    \/ hStation.tag = "undefined"
    \/ hStation.tag = "array"
    \/ (hStation.tag = "string" /\ hStation.s = "")

HandlerRunning ==
    hPc \in {"start", "awaitResponse", "receiving", "resolved", "rejected"}

C4_Safety ==
    (hPc # "idle" /\ ~StationMissingOrNotString) =>
        /\ Len(hResponses) <= 1
        /\ HandlerRunning => hResponses = <<>>
        /\ hPc = "done" => Len(hResponses) = 1
        /\ (hPc = "done" /\ hThrown # "none") =>
              /\ hResponses[1].status = 500
              /\ hResponses[1].body.kind = "error"
              /\ hResponses[1].body.error =
                    (IF hErr.message = <<>> THEN FallbackMessage ELSE hErr.message)
        /\ (hPc = "done" /\ hThrown = "none") => hResponses[1].status = 200

\* C4: an invocation with a valid station sends no response while it runs and
\* exactly one when it ends; when a step of the pipeline threw or rejected,
\* that response is the 500 carrying the error's message, or the fallback
\* text when the message is empty; and once the fetch has settled (resolved
\* or rejected) the handler does end.
C4_OneResponseErrorsCaught ==
    /\ []C4_Safety
    /\ (hPc \in {"resolved", "rejected"}) ~> (hPc = "done")

\* parseCsv threw on a body with no non-blank line; the handler answered 500.
C4_Witness ==
    /\ hPc = "done"
    /\ hThrown = "parse"
    /\ hUpStatus = 200
    /\ hResponses = <<Response(500, ErrorBody(TypeErrorMessage))>>

\* C5: with the station parameter missing, empty or not a single string the
\* handler answers 400 with the descriptive error and never starts a fetch.
C5_BadStationNoFetch ==
    (hPc # "idle" /\ StationMissingOrNotString) =>
        /\ hFetches = 0
        /\ hPc \in {"start", "done"}
        /\ hPc = "done" =>
              hResponses = <<Response(400, ErrorBody(BadRequestMessage))>>

\* A station given several times (an array) was answered with 400.
C5_Witness ==
    /\ hPc = "done"
    /\ hStation.tag = "array"
    /\ hResponses # <<>>
    /\ hResponses[1].status = 400
    /\ hFetches = 0

MessageHas(msg, token) == \E i \in 1..Len(msg) : msg[i] = token

\* C6: when the provider answers with a status >= 400 the fetch fails with an
\* error whose message holds that status code and the station id, parseCsv is
\* never called, and the handler's 500 response carries that message.
C6_UpstreamStatusSurfaced ==
    hUpStatus >= 400 =>
        /\ hPc \in {"rejected", "done"}
        /\ hThrown = "fetch"
        /\ MessageHas(hErr.message, StatusText(hUpStatus))
        /\ MessageHas(hErr.message, hStation.s)
        /\ hParses = 0
        /\ hPc = "done" => hResponses = <<Response(500, ErrorBody(hErr.message))>>

\* The provider answered 404 for the station and the handler answered 500.
C6_Witness ==
    /\ hPc = "done"
    /\ hUpStatus = 404
    /\ hStation.s = "USW1"
    /\ hResponses # <<>>
    /\ hResponses[1].status = 500
    /\ hResponses[1].body.error =
          <<"HTTP ", "404", " from NOAA for station ", "USW1">>

-----------------------------------------------------------------------------
(* Claims about the forecast aggregation, under SpecAggregate *)

\* the date of the i-th entry of the response: the text before the space
EntryDate(i) == <<aList[i].dt_txt[1]>>
ResponseDates == {EntryDate(i) : i \in 1..Len(aList)}
FirstAppearance(d) ==
    CHOOSE i \in 1..Len(aList) :
        EntryDate(i) = d /\ \A j \in 1..(i - 1) : EntryDate(j) # d
EntriesOn(d) == {i \in 1..Len(aList) : EntryDate(i) = d}

RECURSIVE SumOver(_, _)
SumOver(S, f) ==
    IF S = {} THEN 0
    ELSE LET x == CHOOSE y \in S : TRUE IN f[x] + SumOver(S \ {x}, f)

\* r is the integer nearest to num / den, the upper one of two (den > 0)
NearestInteger(r, num, den) ==
    2 * r * den <= 2 * num + den /\ 2 * num + den < 2 * (r + 1) * den

\* C7: for a day count N in 1..5 the aggregation gives min(N, number of
\* distinct dates) summaries, of pairwise distinct dates, in the order in
\* which the dates first appear in the response (the first N of them), each
\* the mean temperature (to one decimal) and the mean precipitation
\* probability (as a rounded percentage) of all and only the entries of its
\* date.
C7_AggregatePerDate ==
    (aOut.tag = "ran" /\ aDays \in 1..MaxDays) =>
        LET out == aOut.value
            n == Cardinality(ResponseDates)
            temps == [i \in 1..Len(aList) |-> aList[i].main.temp]
            pops == [i \in 1..Len(aList) |-> aList[i].pop]
        IN  /\ Len(out) = (IF aDays < n THEN aDays ELSE n)
            /\ \A i \in 1..Len(out) : out[i].date \in ResponseDates
            /\ \A i, j \in 1..Len(out) :
                  i < j => /\ out[i].date # out[j].date
                           /\ FirstAppearance(out[i].date) < FirstAppearance(out[j].date)
            /\ \A i \in 1..Len(out) : \A d \in ResponseDates :
                  FirstAppearance(d) < FirstAppearance(out[i].date) =>
                      \E k \in 1..(i - 1) : out[k].date = d
            /\ \A i \in 1..Len(out) :
                  LET on == EntriesOn(out[i].date)
                  IN  /\ NearestInteger(out[i].avgTemp, 10 * SumOver(on, temps),
                                        Cardinality(on))
                      /\ NearestInteger(out[i].pop, SumOver(on, pops),
                                        Cardinality(on))

\* Three dates, the latest first, and five days asked: three summaries in the
\* order of the response.
C7_Witness ==
    /\ aOut.tag = "ran"
    /\ aDays = 5
    /\ Cardinality(ResponseDates) = 3
    /\ Len(aOut.value) = 3
    /\ aOut.value[1].date = <<"2024-01-03">>
    /\ aOut.value[3].date = <<"2024-01-02">>

-----------------------------------------------------------------------------
(* Claims about the Weather component, under SpecWeather *)

CityBlank == \A i \in 1..Len(city) : city[i] = " "

\* C8: a call of fetchWeather with the API key missing, or with a city that is
\* empty or only white space, sets the error and sends no request; the key is
\* checked first.
C8_NoRequestOnBadInput ==
    [][(clicks' = clicks + 1 /\ (apiKey = "" \/ CityBlank)) =>
          /\ requests' = requests
          /\ calls' = calls
          /\ error' = (IF apiKey = "" THEN MissingKeyMessage ELSE EnterCityMessage)]_vars

\* fetchWeather was called with a key and a blank city; nothing was sent.
C8_Witness ==
    /\ clicks >= 1
    /\ requests = 0
    /\ apiKey = "KEY"
    /\ CityBlank
    /\ error = EnterCityMessage

AllCallsDone == \A i \in 1..Len(calls) : calls[i].pc = "done"

\* C10: once every call of fetchWeather has completed, an error is never
\* shown together with results.
C10_ErrorMeansNoResults ==
    (clicks >= 0 /\ AllCallsDone /\ error # NullValue) => results = <<>>

=============================================================================
